---- MODULE Spec2Model ----
(***************************************************************************)
(* A model of snaql/factory.py: the {% sql %} block extension that fills   *)
(* the environment-wide sql_params registry while a template is parsed and *)
(* rendered once, Snaql.load_queries that turns the registry into a        *)
(* collection of generator functions closed over a deep copy of it, and    *)
(* the generator function fn of gen_func    built by Snaql.gen_func.            *)
(*                                                                         *)
(* Text is a sequence of tokens; WS is a run of whitespace and QUOTE a     *)
(* single quote.  A template line is [guard, txt], where every text holds  *)
(* a quoted SQL literal, written txt ' here: with guard = "" the line is   *)
(* txt ', otherwise it is {% if guard %}txt ' {{ guard }}{% endif %}.      *)
(***************************************************************************)
EXTENDS Integers, Sequences, FiniteSets, TLC

VARIABLES
    sql_params,   \* jinja_env.sql_params, the registry shared by all load_queries calls
    held,         \* the collection (SQLFactory struct) the caller holds, with its closure's meta_struct
    last,         \* the last operation: its inputs and what it returned or raised
    work          \* what the calls made so far have cost, see Work

vars == <<sql_params, held, last, work>>

----------------------------------------------------------------------------
(* Bounds of the model *)

MaxBlocks == 2
MaxWork == 5
MaxSeqLen == 2

----------------------------------------------------------------------------
(* Values *)

WS == " "
QUOTE == "'"
NoneVal == "<None>"
Names == {"a", "b"}
CallNames == <<"a", "b", "c">>
Points == {"p", "q"}
Guards == {""} \cup Points

\* a keyword value: a text, a generator function of the held collection, a list, or undefined
Str(s) == [t |-> "str", s |-> s, name |-> "", is_cond |-> FALSE, items |-> <<>>]
Fn(n, c) == [t |-> "fn", s |-> <<>>, name |-> n, is_cond |-> c, items |-> <<>>]
List(xs) == [t |-> "list", s |-> <<>>, name |-> "", is_cond |-> FALSE, items |-> xs]
Undefined == [t |-> "undef", s |-> <<>>, name |-> "", is_cond |-> FALSE, items |-> <<>>]

\* Python truth of a value: the empty text and the empty list are false, a function is true
Truthy(v) ==
    CASE v.t = "str" -> v.s # <<>>
      [] v.t = "list" -> v.items # <<>>
      [] v.t = "fn" -> TRUE
      [] OTHER -> FALSE

IsCallable(v) == v.t = "fn"

\* isinstance(val, Iterable) and not isinstance(val, StringTypes)
IsNonTextIterable(v) == v.t = "list"

----------------------------------------------------------------------------
(* Text operations *)

RECURSIVE LStrip(_)
LStrip(s) == IF s # <<>> /\ Head(s) = WS THEN LStrip(Tail(s)) ELSE s

RECURSIVE RStrip(_)
RStrip(s) ==
    IF s # <<>> /\ s[Len(s)] = WS THEN RStrip(SubSeq(s, 1, Len(s) - 1)) ELSE s

\* str.strip()
Strip(s) == RStrip(LStrip(s))

\* ' '.join(text.split()): no whitespace run survives but as the single blank between tokens
Normalize(s) == SelectSeq(s, LAMBDA tok : tok # WS)

RECURSIVE escape_string(_)
escape_string(s) ==
    IF s = <<>> THEN <<>>
    ELSE (IF Head(s) = QUOTE THEN <<QUOTE, QUOTE>> ELSE <<Head(s)>>)
             \o escape_string(Tail(s))

----------------------------------------------------------------------------
(* The template engine *)

RECURSIVE ItemsText(_)
ItemsText(xs) ==
    IF xs = <<>> THEN <<>>
    ELSE (IF Head(xs).t = "fn" THEN <<"<function>">> ELSE Head(xs).s)
             \o ItemsText(Tail(xs))

\* what {{ value }} prints
ToText(v) ==
    CASE v.t = "str" -> v.s
      [] v.t = "fn" -> <<"<function>">>
      [] v.t = "list" -> <<"[">> \o ItemsText(v.items) \o <<"]">>
      [] OTHER -> <<>>

Lookup(ctx, g) == IF g \in DOMAIN ctx THEN ctx[g] ELSE Undefined

RenderLine(line, ctx) ==
    IF line.guard = "" THEN <<line.txt, QUOTE>>
    ELSE IF Truthy(Lookup(ctx, line.guard))
         THEN <<line.txt, QUOTE>> \o ToText(Lookup(ctx, line.guard))
         ELSE <<>>

\* env.from_string(raw_sql).render with ctx, raw_sql being lines joined by blanks
RECURSIVE Render(_, _)
Render(lines, ctx) ==
    IF lines = <<>> THEN <<>>
    ELSE IF Len(lines) = 1 THEN RenderLine(lines[1], ctx)
    ELSE RenderLine(lines[1], ctx) \o <<WS>> \o Render(Tail(lines), ctx)

\* caller(): the block body rendered in the template, between its tag lines
Caller(line) == <<WS>> \o RenderLine(line, <<>>) \o <<WS>>

----------------------------------------------------------------------------
(* Template units *)

\* a block: {% sql name[, note=..|cond_for=..] %} body {% endsql %}, mod telling which
\* modifier it has and arg the modifier's value
DeclsOf(N, G) ==
    {[name |-> n, mod |-> "none", arg |-> NoneVal, guard |-> g] : n \in N, g \in G}
    \cup {[name |-> n, mod |-> "note", arg |-> "doc", guard |-> g] : n \in N, g \in G}
    \cup {[name |-> n, mod |-> "cond_for", arg |-> o, guard |-> g] :
              n \in N, o \in N, g \in G}

\* the blocks of the units loaded under Spec: literal bodies
Decls == DeclsOf(Names, {""})

RECURSIVE SeqsUpTo(_, _)
SeqsUpTo(S, n) ==
    IF n = 0 THEN {<<>>}
    ELSE LET shorter == SeqsUpTo(S, n - 1)
         IN  shorter \cup {Append(s, x) : s \in {t \in shorter : Len(t) = n - 1}, x \in S}

\* a template file.  fail = 0: it is well formed and renders; fail = -1: a syntax error
\* follows the listed blocks; fail = k > 0: an expression in the body of block k raises
\* while the template is rendered
Units ==
    {u \in [blocks : SeqsUpTo(Decls, MaxBlocks), fail : -1 .. MaxBlocks] :
        u.fail <= Len(u.blocks)}

\* the units loaded under SpecCall: blocks a, b and c in this order, each one plain or a
\* condition for a or for b, with a literal or a guarded body
CallUnits ==
    {[blocks |-> [i \in 1 .. Len(CallNames) |->
                     [name |-> CallNames[i], mod |-> m[i].mod, arg |-> m[i].arg,
                      guard |-> g[i]]],
      fail |-> 0] :
        m \in [1 .. Len(CallNames) ->
                  {[mod |-> "none", arg |-> NoneVal],
                   [mod |-> "cond_for", arg |-> "a"],
                   [mod |-> "cond_for", arg |-> "b"]}],
        g \in [1 .. Len(CallNames) -> Guards]}

Txt(i) == "T" \o ToString(i)

BodyLine(d, i) == [kind |-> "body", guard |-> d.guard, txt |-> Txt(i)]

\* the template file, one stripped line per element: every block is its tag line, its
\* one-line body and its endsql line
RECURSIVE SourceFrom(_, _)
SourceFrom(blocks, i) ==
    IF i > Len(blocks) THEN <<>>
    ELSE << [kind |-> "tag", guard |-> "", txt |-> blocks[i].name],
            BodyLine(blocks[i], i),
            [kind |-> "end", guard |-> "", txt |-> "endsql"] >>
         \o SourceFrom(blocks, i + 1)

Source(u) == SourceFrom(u.blocks, 1)

\* line numbers (1-based) of the tag and of the endsql of block i
TagLine(i) == 3 * i - 2
EndLine(i) == 3 * i

DeclaredNames(u) == {u.blocks[i].name : i \in 1 .. Len(u.blocks)}

HasDuplicate(u) ==
    \E i, j \in 1 .. Len(u.blocks) : i # j /\ u.blocks[i].name = u.blocks[j].name

----------------------------------------------------------------------------
(* The registry *)

\* the dict a block name maps to; a field outside keys is not in the dict
RawEntry(raw) ==
    [keys |-> {"raw_sql"}, raw_sql |-> raw, sql |-> <<>>, note |-> NoneVal,
     is_cond |-> FALSE, cond_for |-> NoneVal, conds |-> <<>>]

NoFuncs == [n \in {} |-> RawEntry(<<>>)]

\* sql_params = {}
EmptyParams == [keys |-> {}, raws |-> <<>>, funcs |-> NoFuncs]

\* funcs.update({name: e}) and origin.update(...) on the dict funcs[name]
Put(funcs, name, e) ==
    [n \in DOMAIN funcs \cup {name} |-> IF n = name THEN e ELSE funcs[n]]

\* list[lo:hi] of Python on a 1-based sequence
PySlice(seq, lo, hi) ==
    LET h == IF hi > Len(seq) THEN Len(seq) ELSE hi
    IN  IF lo >= h THEN <<>> ELSE SubSeq(seq, lo + 1, h)

\* RawFileSystemLoader.get_source: the raw lines are saved before compilation
GetSource(p, u) ==
    [p EXCEPT !.keys = @ \cup {"raws"}, !.raws = Source(u)]

\* JinjaSQLExtension.parse for block i: raw_sql is stored under the block's name,
\* replacing whatever the name mapped to
ParseBlock(p, d, i) ==
    LET raw_lines == PySlice(p.raws, TagLine(i), EndLine(i) - 1)
    IN  [p EXCEPT !.keys = @ \cup {"funcs"},
                  !.funcs = Put(p.funcs, d.name, RawEntry(raw_lines))]

RECURSIVE ParseFrom(_, _, _)
ParseFrom(p, blocks, i) ==
    IF i > Len(blocks) THEN p
    ELSE ParseFrom(ParseBlock(p, blocks[i], i), blocks, i + 1)

\* origin.setdefault('conds', []).append(kwargs['cond_for'])
LinkCond(origin, d) ==
    [origin EXCEPT !.keys = @ \cup {"conds"}, !.conds = Append(@, d.arg)]

\* origin.update({'sql':.., 'note':.., 'is_cond':..}); cond_for is set for a condition
UpdateOrigin(origin, d, sql) ==
    LET isc == d.mod = "cond_for"
        upd == [origin EXCEPT !.keys = @ \cup {"sql", "note", "is_cond"},
                              !.sql = sql,
                              !.note = IF d.mod = "note" THEN d.arg ELSE NoneVal,
                              !.is_cond = isc]
    IN  IF isc THEN [upd EXCEPT !.keys = @ \cup {"cond_for"}, !.cond_for = d.arg]
        ELSE upd

\* JinjaSQLExtension._sql_process for block i, called when its body has rendered
SqlProcess(p, d, i) ==
    LET raw_sql == Normalize(Caller(BodyLine(d, i)))
        f1 == IF d.mod = "cond_for" /\ d.arg \in DOMAIN p.funcs
              THEN Put(p.funcs, d.arg, LinkCond(p.funcs[d.arg], d))
              ELSE p.funcs
        f2 == Put(f1, d.name, UpdateOrigin(f1[d.name], d, raw_sql))
    IN  [p EXCEPT !.funcs = f2]

\* template.render(): the blocks run in source order, up to the one that raises
RECURSIVE RenderFrom(_, _, _, _)
RenderFrom(p, blocks, i, stop) ==
    IF i > Len(blocks) \/ i = stop THEN p
    ELSE RenderFrom(SqlProcess(p, blocks[i], i), blocks, i + 1, stop)

----------------------------------------------------------------------------
(* Generator functions: Snaql.gen_func *)

NoKw == [k \in {} |-> Undefined]

\* what a generator call returns ("sql") or raises
Result(kind, text, cond, owner, bound, sub, ctx) ==
    [kind |-> kind, text |-> text, cond |-> cond, owner |-> owner,
     bound |-> bound, sub |-> sub, ctx |-> ctx]

Raised(kind, cond, owner) == Result(kind, <<>>, cond, owner, NoKw, NoKw, NoKw)

\* meta_struct['funcs'][n] exists
HasBlock(meta, n) == "funcs" \in meta.keys /\ n \in DOMAIN meta.funcs

\* the ownership test left out
AnyOwner(e, owner_name) == TRUE

\* meta_struct['funcs'][cond_func.__name__]['cond_for'] != owner_name, negated
OwnerMatches(e, owner_name) == e.cond_for = owner_name

\* subrender_cond(owner_name, cond_func, context)
subrender_cond(meta, owner_name, cond_func, context) ==
    IF IsCallable(cond_func) /\ cond_func.is_cond
    THEN IF ~HasBlock(meta, cond_func.name)
         THEN [kind |-> "KeyError", val |-> Undefined, cond |-> cond_func.name]
         ELSE LET e == meta.funcs[cond_func.name]
              IN  IF "cond_for" \notin e.keys
                  THEN [kind |-> "KeyError", val |-> Undefined, cond |-> cond_func.name]
                  ELSE IF ~OwnerMatches(e, owner_name)
                  THEN [kind |-> "ConditionMismatch", val |-> Undefined,
                        cond |-> cond_func.name]
                  ELSE [kind |-> "val", val |-> Str(Strip(Render(e.raw_sql, context))),
                        cond |-> ""]
    ELSE [kind |-> "val", val |-> cond_func, cond |-> ""]

\* [subrender_cond(name, v, kwargs) for v in val]: the first element that raises ends it
RECURSIVE SubrenderAll(_, _, _, _)
SubrenderAll(meta, name, items, context) ==
    IF items = <<>> THEN [kind |-> "val", vals |-> <<>>, cond |-> ""]
    ELSE LET h == subrender_cond(meta, name, Head(items), context)
         IN  IF h.kind # "val" THEN [kind |-> h.kind, vals |-> <<>>, cond |-> h.cond]
             ELSE LET r == SubrenderAll(meta, name, Tail(items), context)
                  IN  IF r.kind # "val" THEN r
                      ELSE [r EXCEPT !.vals = <<h.val>> \o @]

\* the list kept whole
KeepAll(vals) == vals

\* [v for v in val if v]
FilterTruthy(vals) == SelectSeq(vals, Truthy)

\* the loop over kwargs.items(): order is the order in which the dict yields its keys,
\* kw is kwargs as rewritten so far; sub and ctx record, per keyword, what
\* subrender_cond returned and the context it was given
RECURSIVE ResolveFrom(_, _, _, _, _, _, _, _)
ResolveFrom(meta, name, kwargs, order, i, kw, sub, ctx) ==
    IF i > Len(order) THEN [kind |-> "ok", cond |-> "", kw |-> kw, sub |-> sub, ctx |-> ctx]
    ELSE
      LET point == order[i]
          val == kwargs[point]
          m == subrender_cond(meta, name, val, kw)
          kw1 == IF Truthy(m.val) THEN [kw EXCEPT ![point] = m.val] ELSE kw
          sub1 == [k \in DOMAIN sub \cup {point} |-> IF k = point THEN m.val ELSE sub[k]]
          ctx1 == [k \in DOMAIN ctx \cup {point} |-> IF k = point THEN kw ELSE ctx[k]]
      IN  IF m.kind # "val"
          THEN [kind |-> m.kind, cond |-> m.cond, kw |-> kw, sub |-> sub, ctx |-> ctx]
          ELSE IF IsNonTextIterable(val)
          THEN LET l == SubrenderAll(meta, name, val.items, kw1)
               IN  IF l.kind # "val"
                   THEN [kind |-> l.kind, cond |-> l.cond, kw |-> kw1, sub |-> sub1,
                         ctx |-> ctx1]
                   ELSE ResolveFrom(meta, name, kwargs, order, i + 1,
                                    [kw1 EXCEPT ![point] = List(FilterTruthy(l.vals))],
                                    sub1, ctx1)
          ELSE ResolveFrom(meta, name, kwargs, order, i + 1, kw1, sub1, ctx1)

\* the precomputed sql passed through escape_string like a rendered one
EscapedSql(e) == escape_string(e.sql)

\* return meta_struct['funcs'][name]['sql']
StaticSql(e) == e.sql

\* fn below its scope check: the parametrized render, or the precomputed sql
fn_render(meta, name, kwargs, order) ==
    LET e == meta.funcs[name]
    IN  IF DOMAIN kwargs # {}
        THEN LET r == ResolveFrom(meta, name, kwargs, order, 1, kwargs, NoKw, NoKw)
             IN  IF r.kind # "ok" THEN Raised(r.kind, r.cond, name)
                 ELSE Result("sql", escape_string(Strip(Render(e.raw_sql, r.kw))),
                             "", "", r.kw, r.sub, r.ctx)
        ELSE IF "sql" \notin e.keys THEN Raised("KeyError", "", name)
        ELSE Result("sql", StaticSql(e), "", "", NoKw, NoKw, NoKw)

\* fn_render with the scope test made after the parameters are resolved
fn_scope_last(meta, name, kwargs, order) ==
    LET e == meta.funcs[name]
        r == fn_render(meta, name, kwargs, order)
    IN  IF ~HasBlock(meta, name) \/ "is_cond" \notin meta.funcs[name].keys
        THEN Raised("KeyError", "", name)
        ELSE IF r.kind # "sql" THEN r
        ELSE IF e.is_cond THEN Raised("ScopeError", name, e.cond_for)
        ELSE r

\* the generator fn of gen_func(name, meta_struct, env)
fn(meta, name, kwargs, order) ==
    IF ~HasBlock(meta, name) \/ "is_cond" \notin meta.funcs[name].keys
    THEN Raised("KeyError", "", name)
    ELSE IF meta.funcs[name].is_cond
         THEN Raised("ScopeError", name, meta.funcs[name].cond_for)
         ELSE fn_render(meta, name, kwargs, order)

----------------------------------------------------------------------------
(* Snaql.load_queries *)

\* meta_struct bound to the registry object itself
SameObject(obj) == [shared |-> TRUE, val |-> obj]

\* copy.deepcopy(self.jinja_env.sql_params): an object of its own, equal to the argument
deepcopy(obj) == [shared |-> FALSE, val |-> obj]

\* the dict a closure's meta_struct refers to
Deref(m) == IF m.shared THEN sql_params ELSE m.val

\* gen_func reads 'note' and 'is_cond' of every name when it builds the generators
Buildable(p) ==
    /\ "funcs" \in p.keys
    /\ \A n \in DOMAIN p.funcs : {"note", "is_cond"} \subseteq p.funcs[n].keys

\* the SQLFactory struct: one generator per name of the registry; taken remembers the
\* registry as it was when meta_struct was made
Struct(p) ==
    [ok |-> TRUE,
     names |-> DOMAIN p.funcs,
     is_cond |-> [n \in DOMAIN p.funcs |-> p.funcs[n].is_cond],
     doc |-> [n \in DOMAIN p.funcs |-> p.funcs[n].note],
     meta |-> deepcopy(p),
     taken |-> p]

NoStruct ==
    [ok |-> FALSE, names |-> {}, is_cond |-> [n \in {} |-> FALSE],
     doc |-> [n \in {} |-> NoneVal], meta |-> [shared |-> FALSE, val |-> EmptyParams],
     taken |-> EmptyParams]

NoUnit == [blocks |-> <<>>, fail |-> 0]

Op(op, u, ok, error, struct, name, kwargs, order, res) ==
    [op |-> op, unit |-> u, ok |-> ok, error |-> error, struct |-> struct,
     name |-> name, kwargs |-> kwargs, order |-> order, res |-> res]

NoResult == Raised("", "", "")

LoadOp(u, ok, error, struct) == Op("load", u, ok, error, struct, "", NoKw, <<>>, NoResult)

Init ==
    /\ sql_params = EmptyParams
    /\ held = NoStruct
    /\ last = Op("init", NoUnit, FALSE, "", NoStruct, "", NoKw, <<>>, NoResult)
    /\ work = 0

\* a load_queries call costs one and one more per block of its template
Work(u) == 1 + Len(u.blocks)

\* load_queries(sql_path) on a template whose text is unit u and which the environment
\* has not compiled before; keep says whether the caller stores the returned struct or
\* goes on with the one it holds
LoadQueries(u, keep) ==
    LET p1 == GetSource(sql_params, u)
        p2 == ParseFrom(p1, u.blocks, 1)
        p3 == RenderFrom(p2, u.blocks, 1, u.fail)
    IN  /\ work + Work(u) <= MaxWork
        /\ work' = work + Work(u)
        /\ IF u.fail = -1
           THEN /\ sql_params' = p2
                /\ last' = LoadOp(u, FALSE, "TemplateSyntaxError", NoStruct)
                /\ held' = held
           ELSE IF u.fail > 0
           THEN /\ sql_params' = p3
                /\ last' = LoadOp(u, FALSE, "RenderError", NoStruct)
                /\ held' = held
           ELSE IF ~Buildable(p3)
           THEN /\ sql_params' = p3
                /\ last' = LoadOp(u, FALSE, "KeyError", NoStruct)
                /\ held' = held
           ELSE /\ sql_params' = EmptyParams
                /\ last' = LoadOp(u, TRUE, "", Struct(p3))
                /\ held' = IF keep THEN Struct(p3) ELSE held

----------------------------------------------------------------------------
(* Calls of the generators of the held collection *)

Plain == {Str(<<>>), Str(<<"v", QUOTE>>)}

Gens == {Fn(n, held.is_cond[n]) : n \in held.names}

Lists == {List(xs) : xs \in SeqsUpTo(Gens, MaxSeqLen)}

\* keyword arguments: none, or one keyword with a text or a generator
FewKwargs == {NoKw} \cup [{"p"} -> {Str(<<"v", QUOTE>>)} \cup Gens]

Orders(kwargs) ==
    {o \in SeqsUpTo(DOMAIN kwargs, Cardinality(DOMAIN kwargs)) :
        /\ Len(o) = Cardinality(DOMAIN kwargs)
        /\ \A i, j \in 1 .. Len(o) : i # j => o[i] # o[j]}

Call(name, kwargs, order) ==
    /\ held.ok
    /\ name \in held.names
    /\ work < MaxWork
    /\ work' = work + 1
    /\ last' = Op("call", NoUnit, TRUE, "", NoStruct, name, kwargs, order,
                  fn(Deref(held.meta), name, kwargs, order))
    /\ UNCHANGED <<sql_params, held>>

\* keyword arguments p and q: p any value, q a text or a generator
ManyKwargs ==
    LET P == Plain \cup Gens \cup Lists
        Q == Plain \cup Gens
    IN  {NoKw} \cup [{"p"} -> P] \cup [{"q"} -> Q]
        \cup {[k \in Points |-> IF k = "p" THEN x ELSE y] : x \in P, y \in Q}

Next ==
    \/ \E u \in Units, keep \in BOOLEAN : LoadQueries(u, keep)
    \/ \E name \in Names, kwargs \in FewKwargs : \E order \in Orders(kwargs) :
           Call(name, kwargs, order)

\* any sequence of loads and of calls of the held generators
Spec == Init /\ [][Next]_vars

\* one load of a unit of three blocks
LoadOnce(u) == ~held.ok /\ LoadQueries(u, TRUE)

\* one call of a generator of the collection just loaded
CallOnce ==
    /\ last.op = "load"
    /\ \E name \in held.names, kwargs \in ManyKwargs : \E order \in Orders(kwargs) :
           Call(name, kwargs, order)

NextCall ==
    \/ \E u \in CallUnits : LoadOnce(u)
    \/ CallOnce

\* one collection of three blocks and one call of one of its generators, with any
\* keyword arguments
SpecCall == Init /\ [][NextCall]_vars

----------------------------------------------------------------------------
(* Properties of the registry and of load_queries, checked under Spec *)

\* the registry a successful load_queries call copied into its generators
Loaded == last.op = "load" /\ last.ok

Snapshot == last.struct.taken.funcs

\* the positions of the blocks of u that declare cond_for = x
Declarers(u, x) ==
    {i \in 1 .. Len(u.blocks) : u.blocks[i].mod = "cond_for" /\ u.blocks[i].arg = x}

CondsOf(e) == IF "conds" \in e.keys THEN e.conds ELSE <<>>

Count(seq, x) == Cardinality({i \in 1 .. Len(seq) : seq[i] = x})

\* C2: a generator of a non-conditional block called with no keyword returns the sql
\* its snapshot held when it was taken, whatever calls and loads came before
C2_NoArgumentCallReturnsSql ==
    (last.op = "call" /\ DOMAIN last.kwargs = {} /\ ~held.taken.funcs[last.name].is_cond)
        => /\ last.res.kind = "sql"
           /\ last.res.text = held.taken.funcs[last.name].sql

\* a no-keyword call that returns a quoted text while a later, failed load has left
\* its blocks in the shared registry
C2_Witness ==
    /\ last.op = "call" /\ DOMAIN last.kwargs = {}
    /\ last.res.kind = "sql" /\ QUOTE \in {last.res.text[i] : i \in 1 .. Len(last.res.text)}
    /\ "raws" \in sql_params.keys

\* C5: after a compilation every block X of the registry lists in conds exactly the
\* names of the blocks that declared cond_for = X, one entry each, and a block named
\* as owner has an entry
C5_CondsNameTheDeclarers ==
    Loaded =>
        \A x \in Names :
            /\ Declarers(last.unit, x) # {} => x \in DOMAIN Snapshot
            /\ x \in DOMAIN Snapshot =>
                 /\ Len(CondsOf(Snapshot[x])) = Cardinality(Declarers(last.unit, x))
                 /\ \A n \in Names :
                        Count(CondsOf(Snapshot[x]), n)
                            = Cardinality({i \in Declarers(last.unit, x) :
                                              last.unit.blocks[i].name = n})

\* C6: a successful load_queries call returns one generator per block its own template
\* declares and nothing else
C6_OnlyDeclaredBlocksReturned ==
    Loaded => last.struct.names = DeclaredNames(last.unit)

\* C7: a template that declares a block name twice is rejected: load_queries fails
C7_DuplicateNameRejected ==
    (last.op = "load" /\ HasDuplicate(last.unit)) => ~last.ok

\* C8: in a snapshot the generators are built from, the cond_for of every conditional
\* block names a block of that snapshot
C8_OwnerInSnapshot ==
    Loaded =>
        \A n \in DOMAIN Snapshot :
            Snapshot[n].is_cond => Snapshot[n].cond_for \in DOMAIN Snapshot

\* C9: the snapshot a held generator reads is, block by block, what it was when it was
\* taken, after any calls (failing or not) and any later loads
C9_SnapshotUnchanged ==
    held.ok =>
        /\ "funcs" \in Deref(held.meta).keys
        /\ DOMAIN Deref(held.meta).funcs = held.names
        /\ \A n \in held.names :
               LET now == Deref(held.meta).funcs[n]
                   then == held.taken.funcs[n]
               IN  /\ now.keys = then.keys
                   /\ now.raw_sql = then.raw_sql
                   /\ now.sql = then.sql
                   /\ now.note = then.note
                   /\ now.is_cond = then.is_cond
                   /\ now.cond_for = then.cond_for

\* a call that failed with the condition mismatch, made while a later failed load has
\* left its blocks in the shared registry
C9_Witness ==
    /\ held.ok
    /\ last.op = "call" /\ last.res.kind = "ConditionMismatch"
    /\ "raws" \in sql_params.keys

----------------------------------------------------------------------------
(* Properties of one generator call, checked under SpecCall *)

\* the registry the called generator's closure was given
Taken == held.taken.funcs

IsCondGen(v) == v.t = "fn" /\ v.is_cond

\* the keywords whose value is the generator of a conditional block
TopConds(kwargs) == {k \in DOMAIN kwargs : IsCondGen(kwargs[k])}

\* the keywords whose value is a list
ListPoints(kwargs) == {k \in DOMAIN kwargs : kwargs[k].t = "list"}

\* the conditional generators passed, as a value or as an element of a list
CondGens(kwargs) ==
    {kwargs[k] : k \in TopConds(kwargs)}
    \cup UNION {{kwargs[k].items[i] : i \in 1 .. Len(kwargs[k].items)} \cap
                    {v \in Gens : v.is_cond} : k \in ListPoints(kwargs)}

\* those of them whose recorded owner is not block a
Foreign(kwargs, a) == {v \in CondGens(kwargs) : Taken[v.name].cond_for # a}

\* c is the call's parameter set, each keyword as passed or as already resolved
ParameterSet(c) ==
    /\ DOMAIN c = DOMAIN last.kwargs
    /\ \A j \in DOMAIN c : c[j] = last.kwargs[j] \/ c[j] = last.res.bound[j]

\* the text of conditional block v rendered in context c and stripped
CondText(v, c) == Strip(Render(Taken[v.name].raw_sql, c))

\* C1: a top-level call of the generator of a conditional block fails with the scope
\* error whatever the keywords are, and returns no text
C1_ConditionalCallIsScopeError ==
    (last.op = "call" /\ Taken[last.name].is_cond)
        => /\ last.res.kind = "ScopeError"
           /\ last.res.cond = last.name
           /\ last.res.owner = Taken[last.name].cond_for
           /\ last.res.text = <<>>

\* a conditional block called with a keyword that holds a condition of another block:
\* resolving the keyword first would have raised the condition mismatch
C1_Witness ==
    /\ last.op = "call" /\ Taken[last.name].is_cond
    /\ last.res.kind = "ScopeError"
    /\ Foreign(last.kwargs, last.name) # {}

\* C3: block A called with a keyword that holds the generator of a conditional block:
\* if the recorded owner of one of them is not A the call fails with the condition
\* mismatch naming such a block and A; if all conditions passed are A's, each one's
\* raw_sql is rendered with the call's parameter set
C3_OwnershipChecked ==
    (last.op = "call" /\ ~Taken[last.name].is_cond /\ TopConds(last.kwargs) # {})
        => IF \E k \in TopConds(last.kwargs) :
                  Taken[last.kwargs[k].name].cond_for # last.name
           THEN /\ last.res.kind = "ConditionMismatch"
                /\ last.res.owner = last.name
                /\ last.res.cond \in {v.name : v \in Foreign(last.kwargs, last.name)}
                /\ last.res.text = <<>>
           ELSE Foreign(last.kwargs, last.name) = {}
                => /\ last.res.kind = "sql"
                   /\ \A k \in TopConds(last.kwargs) :
                          LET t == CondText(last.kwargs[k], last.res.ctx[k])
                          IN  /\ ParameterSet(last.res.ctx[k])
                              /\ last.res.sub[k] = Str(t)
                              /\ t # <<>> => last.res.bound[k] = Str(t)

\* block a called with two conditions, one its own and one of another block
C3_Witness ==
    /\ last.op = "call" /\ last.res.kind = "ConditionMismatch"
    /\ last.res.owner = last.name
    /\ Cardinality(TopConds(last.kwargs)) = 2
    /\ Cardinality(Foreign(last.kwargs, last.name)) = 1

\* C4: a keyword whose conditional generator, owned by the called block, renders to
\* the empty text is bound to an empty value when the block is rendered, not to the
\* generator, and a body guarded by that keyword is absent from the output
C4_EmptyConditionBoundEmpty ==
    (last.op = "call" /\ last.res.kind = "sql")
        => \A k \in TopConds(last.kwargs) :
               CondText(last.kwargs[k], last.res.ctx[k]) = <<>>
                   => /\ ~Truthy(last.res.bound[k])
                      /\ last.res.bound[k].t # "fn"
                      /\ \A i \in 1 .. Len(Taken[last.name].raw_sql) :
                             Taken[last.name].raw_sql[i].guard = k
                                 => last.res.text = <<>>

\* the texts of the conditions of a list rendered in context c, the empty ones left out
NonEmptyTexts(items, c) ==
    SelectSeq([i \in 1 .. Len(items) |-> Str(CondText(items[i], c))],
              LAMBDA v : v.s # <<>>)

\* C10: a keyword whose value is a list of conditional generators is bound to the
\* list of their rendered texts without the empty ones, in the same order; a list
\* with a condition of another block makes the call fail with the condition mismatch
C10_ListOfConditionsResolved ==
    (last.op = "call" /\ ~Taken[last.name].is_cond)
        => \A k \in ListPoints(last.kwargs) :
               LET items == last.kwargs[k].items
               IN  (\A i \in 1 .. Len(items) : IsCondGen(items[i]))
                   => IF \E i \in 1 .. Len(items) :
                             Taken[items[i].name].cond_for # last.name
                      THEN /\ last.res.kind = "ConditionMismatch"
                           /\ last.res.owner = last.name
                      ELSE /\ Foreign(last.kwargs, last.name) = {}
                                  => last.res.kind = "sql"
                           /\ last.res.kind = "sql"
                                  => /\ last.res.bound[k]
                                         = List(NonEmptyTexts(items, last.res.ctx[k]))
                                     /\ ParameterSet(last.res.ctx[k])
                                     /\ Len(last.res.bound[k].items) <= Len(items)
                                     /\ \A i \in 1 .. Len(last.res.bound[k].items) :
                                            last.res.bound[k].items[i].s # <<>>

\* a list of two conditions of the called block of which the first renders empty and
\* the second does not
C10_Witness ==
    /\ last.op = "call" /\ last.res.kind = "sql"
    /\ \E k \in ListPoints(last.kwargs) :
           /\ Len(last.kwargs[k].items) = 2
           /\ \A i \in 1 .. 2 : IsCondGen(last.kwargs[k].items[i])
           /\ CondText(last.kwargs[k].items[1], last.res.ctx[k]) = <<>>
           /\ Len(last.res.bound[k].items) = 1

====
